---------------------------- MODULE Spec2Model ----------------------------
(***************************************************************************)
(* Model of the IoT Sensor Analytics API (src/main.py).                    *)
(*                                                                         *)
(* Numbers.  A temperature or humidity is an integer number of thousandths *)
(* (22.004 is 22004), so that values with more precision than the two      *)
(* decimals of the output exist and rounding is observable.  A value       *)
(* rounded to two decimals is a multiple of 10.  A scalar statistic is a   *)
(* fraction [num, den]; den = 0 is NaN (the mean, max or min of an empty   *)
(* column).                                                                *)
(*                                                                         *)
(* Time.  A timestamp is [sec, sub]: whole seconds and the sub-second      *)
(* part that pd.Timestamp.now() carries and strftime drops.                *)
(*                                                                         *)
(* A DataFrame is a record of equally long columns, as in pandas.          *)
(***************************************************************************)
EXTENDS Integers, Sequences, FiniteSets, TLC

VARIABLES pc, kind, num_records, now, drawn, df, analytics, raw_data,
          response, error

vars == <<pc, kind, num_records, now, drawn, df, analytics, raw_data,
          response, error>>

-----------------------------------------------------------------------------
(* Bounds of the model *)

\* largest count a direct caller passes to simulate_sensor_data
MaxCount == 3

\* number of concurrent request slots of the server
NumRequests == 2

\* seeds 0..MaxSeed of the sample runs used for the frames longer than MaxCount
MaxSeed == 2

-----------------------------------------------------------------------------
(* Program constants *)

\* simulate_sensor_data(num_records=150) in get_analytics_data
NumRecords == 150

\* freq='T': one minute between consecutive timestamps
Minute == 60

SensorIds == {"sensor_alpha", "sensor_beta", "sensor_gamma"}

Requests == 1..NumRequests

\* the one caller that invokes the two functions directly with any count
Direct == {1}

\* counts a direct caller passes: negative, zero, small positive ones and
\* the count of the endpoint
CountRange == ((0 - 1)..MaxCount) \cup {NumRecords}

-----------------------------------------------------------------------------
(* Values the random source and the clock can produce (a finite sample) *)

Pool ==
  << [sensor_id |-> "sensor_alpha", temperature |-> 20000, humidity |-> 50000],
     [sensor_id |-> "sensor_alpha", temperature |-> 22000, humidity |-> 55000],
     [sensor_id |-> "sensor_beta",  temperature |-> 24000, humidity |-> 60000],
     [sensor_id |-> "sensor_gamma", temperature |-> 22004, humidity |-> 55005],
     [sensor_id |-> "sensor_beta",  temperature |-> 22010, humidity |-> 54996],
     [sensor_id |-> "sensor_gamma", temperature |-> 21995, humidity |-> 61238] >>

PoolSet == {Pool[i] : i \in 1..Len(Pool)}

\* clock readings: just before midnight with a sub-second part, and on the hour
BeforeMidnight == [sec |-> 86399, sub |-> 7]

OnTheHour == [sec |-> 90000, sub |-> 0]

NowSet == {BeforeMidnight, OnTheHour}

\* one sample path of length n, determined by the seed s
SeededDraw(s, n) ==
  [k \in 1..n |-> Pool[((s + (k - 1) * (s + 1)) % Len(Pool)) + 1]]

\* the clock reading of the run with seed s
SeededNow(s) == IF s % 2 = 0 THEN BeforeMidnight ELSE OnTheHour

\* the outcomes <<clock reading, draws>> of pd.Timestamp.now() and of
\* np.random.choice / np.random.normal with size n >= 0: every clock reading
\* with every sequence over the pool for the short frames, one seeded run per
\* seed for the long ones
Runs(n) ==
  IF n <= MaxCount
    THEN NowSet \X [1..n -> PoolSet]
    ELSE {<<SeededNow(s), SeededDraw(s, n)>> : s \in 0..MaxSeed}

-----------------------------------------------------------------------------
(* Scalars *)

NaN == [num |-> 0, den |-> 0]

Float(x) == [num |-> x, den |-> 1]

IsNaN(x) == x.den = 0

\* p/q (q > 0) rounded to the nearest integer, ties to even (numpy rint)
RoundHalfEven(p, q) ==
  LET f == p \div q
      r == p % q
  IN  IF 2 * r < q THEN f
      ELSE IF 2 * r > q THEN f + 1
      ELSE IF f % 2 = 0 THEN f ELSE f + 1

\* round(x, 2) of a scalar statistic: NaN stays NaN
Round2(x) ==
  IF IsNaN(x) THEN NaN ELSE Float(10 * RoundHalfEven(x.num, 10 * x.den))

\* col[lo] + ... + col[hi], summed by halves
RECURSIVE RangeSum(_, _, _)
RangeSum(col, lo, hi) ==
  IF lo > hi THEN 0
  ELSE IF lo = hi THEN col[lo]
  ELSE LET mid == (lo + hi) \div 2
       IN  RangeSum(col, lo, mid) + RangeSum(col, mid + 1, hi)

\* Series.sum()
SeriesSum(col) == RangeSum(col, 1, Len(col))

\* Series.mean(): NaN on an empty column
SeriesMean(col) ==
  IF Len(col) = 0 THEN NaN ELSE [num |-> SeriesSum(col), den |-> Len(col)]

\* Series.max(): NaN on an empty column
SeriesMax(col) ==
  IF Len(col) = 0 THEN NaN
  ELSE Float(CHOOSE m \in {col[i] : i \in 1..Len(col)} :
               \A j \in 1..Len(col) : col[j] <= m)

\* a copy-paste slip: min computed with max
SeriesMinSwapped(col) == SeriesMax(col)

\* Series.min(): NaN on an empty column
SeriesMin(col) ==
  IF Len(col) = 0 THEN NaN
  ELSE Float(CHOOSE m \in {col[i] : i \in 1..Len(col)} :
               \A j \in 1..Len(col) : m <= col[j])

\* truncation instead of rounding
SeriesTruncate(col) == [i \in 1..Len(col) |-> 10 * (col[i] \div 10)]

\* Series.round(2): every element to two decimals
SeriesRound(col) == [i \in 1..Len(col) |-> 10 * RoundHalfEven(col[i], 10)]

\* value_counts on every sensor id, absent ones counted 0
ValueCountsAllIds(col) ==
  [id \in SensorIds |-> Cardinality({i \in 1..Len(col) : col[i] = id})]

\* Series.value_counts().to_dict(): the ids present, each with its count
ValueCounts(col) ==
  [id \in {col[i] : i \in 1..Len(col)} |->
     Cardinality({i \in 1..Len(col) : col[i] = id})]

-----------------------------------------------------------------------------
(* Timestamps *)

\* a range anchored at its first instant instead of its last
DateRangeFromStart(end, periods) ==
  [k \in 1..periods |-> [sec |-> end.sec + (k - 1) * Minute, sub |-> end.sub]]

\* pd.date_range(end=end, periods=periods, freq='T'), periods >= 0
DateRange(end, periods) ==
  [k \in 1..periods |-> [sec |-> end.sec - (periods - k) * Minute, sub |-> end.sub]]

\* strftime('%Y-%m-%d %H:%M:%S'): the date and the time of day to the second
StrFTime(t) ==
  [date |-> t.sec \div 86400,
   H    |-> (t.sec % 86400) \div 3600,
   M    |-> (t.sec % 3600) \div 60,
   S    |-> t.sec % 60]

-----------------------------------------------------------------------------
(* Frames *)

EmptyFrame ==
  [timestamp |-> <<>>, sensor_id |-> <<>>, temperature |-> <<>>, humidity |-> <<>>]

None == [none |-> TRUE]

Column(d, f) == [i \in 1..Len(d) |-> d[i][f]]

\* one reading too many
SimulateOneMore(end, d) ==
  [timestamp   |-> DateRange(end, Len(d) + 1),
   sensor_id   |-> Column(d, "sensor_id") \o <<"sensor_alpha">>,
   temperature |-> Column(d, "temperature") \o <<22500>>,
   humidity    |-> Column(d, "humidity") \o <<55000>>]

\* the frame simulate_sensor_data builds from the clock reading and the draws
Simulate(end, d) ==
  [timestamp   |-> DateRange(end, Len(d)),
   sensor_id   |-> Column(d, "sensor_id"),
   temperature |-> Column(d, "temperature"),
   humidity    |-> Column(d, "humidity")]

\* the aggregates taken over the rounded columns
AggregateRounded(f) ==
  [total_records      |-> Len(f.timestamp),
   average_temp       |-> Round2(SeriesMean(SeriesRound(f.temperature))),
   max_temp           |-> Round2(SeriesMax(SeriesRound(f.temperature))),
   min_temp           |-> Round2(SeriesMin(SeriesRound(f.temperature))),
   average_humidity   |-> Round2(SeriesMean(SeriesRound(f.humidity))),
   records_per_sensor |-> ValueCounts(f.sensor_id)]

\* Step B: the analytics dict
Aggregate(f) ==
  [total_records      |-> Len(f.timestamp),
   average_temp       |-> Round2(SeriesMean(f.temperature)),
   max_temp           |-> Round2(SeriesMax(f.temperature)),
   min_temp           |-> Round2(SeriesMin(f.temperature)),
   average_humidity   |-> Round2(SeriesMean(f.humidity)),
   records_per_sensor |-> ValueCounts(f.sensor_id)]

\* df.to_dict(orient='records'): one dict per row, in row order
ToDictRecords(f) ==
  [i \in 1..Len(f.timestamp) |->
     [timestamp   |-> f.timestamp[i],
      sensor_id   |-> f.sensor_id[i],
      temperature |-> f.temperature[i],
      humidity    |-> f.humidity[i]]]

\* the payload without the raw rows
PayloadNoRaw(a, raw) == a

\* Step D: {**analytics, "raw_data": raw_data_for_json}
Payload(a, raw) ==
  [total_records      |-> a.total_records,
   average_temp       |-> a.average_temp,
   max_temp           |-> a.max_temp,
   min_temp           |-> a.min_temp,
   average_humidity   |-> a.average_humidity,
   records_per_sensor |-> a.records_per_sensor,
   raw_data           |-> raw]

\* a frame kept in one module-level variable shared by all requests
SetColumnShared(r, c, v) == [q \in Requests |-> [df[q] EXCEPT ![c] = v]]

\* df[c] = v on the frame local to request r
SetColumn(r, c, v) == [df EXCEPT ![r] = [df[r] EXCEPT ![c] = v]]

-----------------------------------------------------------------------------
(* State *)

Init ==
  /\ pc          = [r \in Requests |-> "idle"]
  /\ kind        = [r \in Requests |-> "none"]
  /\ num_records = [r \in Requests |-> 0]
  /\ now         = [r \in Requests |-> [sec |-> 0, sub |-> 0]]
  /\ drawn       = [r \in Requests |-> <<>>]
  /\ df          = [r \in Requests |-> EmptyFrame]
  /\ analytics   = [r \in Requests |-> None]
  /\ raw_data    = [r \in Requests |-> <<>>]
  /\ response    = [r \in Requests |-> None]
  /\ error       = [r \in Requests |-> "none"]

\* a direct call of the generator and the summarizing steps with count n
CallDirect(r, n) ==
  /\ pc[r] = "idle"
  /\ kind[r] = "none"
  /\ pc' = [pc EXCEPT ![r] = "A"]
  /\ kind' = [kind EXCEPT ![r] = "direct"]
  /\ num_records' = [num_records EXCEPT ![r] = n]
  /\ UNCHANGED <<now, drawn, df, analytics, raw_data, response, error>>

\* GET /api/v1/analytics is dispatched: get_analytics_data starts
GetAnalytics(r) ==
  /\ pc[r] = "idle"
  /\ kind[r] = "none"
  /\ pc' = [pc EXCEPT ![r] = "A"]
  /\ kind' = [kind EXCEPT ![r] = "analytics"]
  /\ num_records' = [num_records EXCEPT ![r] = NumRecords]
  /\ UNCHANGED <<now, drawn, df, analytics, raw_data, response, error>>

\* Step A, num_records < 0: np.random.choice raises ValueError
\* (negative dimensions are not allowed); the call returns nothing
SimulateRaises(r) ==
  /\ pc[r] = "A"
  /\ num_records[r] < 0
  /\ pc' = [pc EXCEPT ![r] = "failed"]
  /\ error' = [error EXCEPT ![r] = "ValueError"]
  /\ UNCHANGED <<kind, num_records, now, drawn, df, analytics, raw_data, response>>

\* Step A, num_records >= 0: df = simulate_sensor_data(num_records)
SimulateSensorData(r) ==
  /\ pc[r] = "A"
  /\ num_records[r] >= 0
  /\ \E run \in Runs(num_records[r]) :
       /\ now' = [now EXCEPT ![r] = run[1]]
       /\ drawn' = [drawn EXCEPT ![r] = run[2]]
       /\ df' = [df EXCEPT ![r] = Simulate(run[1], run[2])]
  /\ pc' = [pc EXCEPT ![r] = "B"]
  /\ UNCHANGED <<kind, num_records, analytics, raw_data, response, error>>

\* Step B: analytics = {...}
ComputeAnalytics(r) ==
  /\ pc[r] = "B"
  /\ analytics' = [analytics EXCEPT ![r] = Aggregate(df[r])]
  /\ pc' = [pc EXCEPT ![r] = "C1"]
  /\ UNCHANGED <<kind, num_records, now, drawn, df, raw_data, response, error>>

\* Step C: df['timestamp'] = df['timestamp'].dt.strftime(...)
FormatTimestamp(r) ==
  /\ pc[r] = "C1"
  /\ df' = SetColumn(r, "timestamp",
             [i \in 1..Len(df[r].timestamp) |-> StrFTime(df[r].timestamp[i])])
  /\ pc' = [pc EXCEPT ![r] = "C2"]
  /\ UNCHANGED <<kind, num_records, now, drawn, analytics, raw_data, response, error>>

\* Step C: df['temperature'] = df['temperature'].round(2)
RoundTemperature(r) ==
  /\ pc[r] = "C2"
  /\ df' = SetColumn(r, "temperature", SeriesRound(df[r].temperature))
  /\ pc' = [pc EXCEPT ![r] = "C3"]
  /\ UNCHANGED <<kind, num_records, now, drawn, analytics, raw_data, response, error>>

\* Step C: df['humidity'] = df['humidity'].round(2)
RoundHumidity(r) ==
  /\ pc[r] = "C3"
  /\ df' = SetColumn(r, "humidity", SeriesRound(df[r].humidity))
  /\ pc' = [pc EXCEPT ![r] = "C4"]
  /\ UNCHANGED <<kind, num_records, now, drawn, analytics, raw_data, response, error>>

\* Step C: raw_data_for_json = df.to_dict(orient='records')
ToDict(r) ==
  /\ pc[r] = "C4"
  /\ raw_data' = [raw_data EXCEPT ![r] = ToDictRecords(df[r])]
  /\ pc' = [pc EXCEPT ![r] = "D"]
  /\ UNCHANGED <<kind, num_records, now, drawn, df, analytics, response, error>>

\* Step D: return {**analytics, "raw_data": raw_data_for_json}
Return(r) ==
  /\ pc[r] = "D"
  /\ response' = [response EXCEPT ![r] = Payload(analytics[r], raw_data[r])]
  /\ pc' = [pc EXCEPT ![r] = "done"]
  /\ UNCHANGED <<kind, num_records, now, drawn, df, analytics, raw_data, error>>

\* GET /: read_root returns its constant payload
ReadRoot(r) ==
  /\ pc[r] = "idle"
  /\ kind[r] = "none"
  /\ kind' = [kind EXCEPT ![r] = "root"]
  /\ response' = [response EXCEPT ![r] =
       [status |-> "OK", message |-> "Welcome to the IoT Analytics Backend!"]]
  /\ pc' = [pc EXCEPT ![r] = "done"]
  /\ UNCHANGED <<num_records, now, drawn, df, analytics, raw_data, error>>

\* the direct caller: any count, one call at a time
Next ==
  \/ \E r \in Direct, n \in CountRange : CallDirect(r, n)
  \/ \E r \in Direct : SimulateRaises(r)
  \/ \E r \in Direct : SimulateSensorData(r)
  \/ \E r \in Direct : ComputeAnalytics(r)
  \/ \E r \in Direct : FormatTimestamp(r)
  \/ \E r \in Direct : RoundTemperature(r)
  \/ \E r \in Direct : RoundHumidity(r)
  \/ \E r \in Direct : ToDict(r)
  \/ \E r \in Direct : Return(r)

Spec == Init /\ [][Next]_vars

\* the server: concurrent requests to the two endpoints, interleaved per statement
NextApi ==
  \/ \E r \in Requests : GetAnalytics(r)
  \/ \E r \in Requests : ReadRoot(r)
  \/ \E r \in Requests : SimulateSensorData(r)
  \/ \E r \in Requests : ComputeAnalytics(r)
  \/ \E r \in Requests : FormatTimestamp(r)
  \/ \E r \in Requests : RoundTemperature(r)
  \/ \E r \in Requests : RoundHumidity(r)
  \/ \E r \in Requests : ToDict(r)
  \/ \E r \in Requests : Return(r)

SpecApi == Init /\ [][NextApi]_vars

-----------------------------------------------------------------------------
(* Properties *)

\* positions at which simulate_sensor_data has returned a frame
Generated == {"B", "C1", "C2", "C3", "C4", "D", "done"}

\* positions at which the analytics dict exists
Summarized == {"C1", "C2", "C3", "C4", "D", "done"}

\* positions at which the raw rows exist
Formatted == {"D", "done"}

Temperatures(r) == Column(drawn[r], "temperature")

Humidities(r) == Column(drawn[r], "humidity")

Abs(x) == IF x < 0 THEN 0 - x ELSE x

\* C1: for every count > 0 the call returns (it does not fail) a frame of
\* exactly count readings, and every sensor_id is one of the three fixed ids.
C1_ExactlyCountReadings ==
  \A r \in Requests :
    (num_records[r] > 0 /\ pc[r] \notin {"idle", "A"}) =>
      /\ pc[r] \in Generated
      /\ Len(df[r].timestamp) = num_records[r]
      /\ Len(df[r].sensor_id) = num_records[r]
      /\ Len(df[r].temperature) = num_records[r]
      /\ Len(df[r].humidity) = num_records[r]
      /\ \A i \in 1..Len(df[r].sensor_id) : df[r].sensor_id[i] \in SensorIds

C1_Witness ==
  \E r \in Requests :
    /\ pc[r] = "B"
    /\ num_records[r] = 2
    /\ df[r].sensor_id = <<"sensor_gamma", "sensor_beta">>

\* C2: the k-th timestamp (from the oldest, k = 1..count) of a generated frame
\* is the call's clock reading minus (count - k) minutes: consecutive
\* timestamps differ by exactly 60 seconds and the last one is the clock
\* reading itself.
C2_TimestampsEndAtNow ==
  \A r \in Requests :
    (num_records[r] > 0 /\ pc[r] \in {"B", "C1"}) =>
      LET ts == df[r].timestamp
          n  == num_records[r]
      IN  /\ Len(ts) = n
          /\ ts[n] = now[r]
          /\ \A k \in 1..n :
               /\ ts[k].sec = now[r].sec - (n - k) * 60
               /\ ts[k].sub = now[r].sub
          /\ \A k \in 1..(n - 1) :
               /\ ts[k + 1].sec - ts[k].sec = 60
               /\ ts[k].sec < ts[k + 1].sec

C2_Witness ==
  \E r \in Requests :
    /\ pc[r] = "B"
    /\ num_records[r] = 3
    /\ now[r] = [sec |-> 86399, sub |-> 7]
    /\ df[r].timestamp[1] = [sec |-> 86279, sub |-> 7]

\* C3: a call with count <= 0 fails with an invalid-argument error (Python's
\* ValueError) and returns no frame.
C3_NonPositiveCountRejected ==
  \A r \in Requests :
    (num_records[r] <= 0 /\ pc[r] \notin {"idle", "A"}) =>
      /\ pc[r] = "failed"
      /\ error[r] = "ValueError"

\* C4: summarizing an empty frame fails with EmptyInput: no analytics dict and
\* no response is ever built from zero readings.
C4_EmptyInputRejected ==
  \A r \in Requests :
    (pc[r] \in Summarized /\ Len(drawn[r]) = 0) =>
      /\ error[r] = "EmptyInput"
      /\ analytics[r] = None
      /\ response[r] = None

\* the count of id in the mapping m, 0 when id is no key
CountIn(m, id) == IF id \in DOMAIN m THEN m[id] ELSE 0

\* C5: for a non-empty frame the keys of records_per_sensor are fixed sensor
\* ids, exactly the ids that occur, each with the number of readings having
\* that id (never 0), and the counts sum to total_records.
C5_RecordsPerSensor ==
  \A r \in Requests :
    (pc[r] \in Summarized /\ Len(drawn[r]) > 0) =>
      LET m == analytics[r].records_per_sensor
      IN  /\ DOMAIN m \subseteq SensorIds
          /\ \A id \in SensorIds :
               /\ CountIn(m, id)
                    = Cardinality({i \in 1..Len(drawn[r]) : drawn[r][i].sensor_id = id})
               /\ id \in DOMAIN m => m[id] > 0
          /\ CountIn(m, "sensor_alpha") + CountIn(m, "sensor_beta")
               + CountIn(m, "sensor_gamma") = analytics[r].total_records

C5_Witness ==
  \E r \in Requests :
    /\ pc[r] = "C1"
    /\ Len(drawn[r]) = 3
    /\ DOMAIN analytics[r].records_per_sensor = {"sensor_alpha", "sensor_beta"}
    /\ analytics[r].records_per_sensor["sensor_alpha"] = 2

\* C6: for a non-empty frame min_temp <= average_temp <= max_temp, where
\* min_temp and max_temp are the two-decimal roundings of the least and the
\* greatest temperature and average_temp is a two-decimal value within half a
\* hundredth of the arithmetic mean.
C6_MinAvgMax ==
  \A r \in Requests :
    (pc[r] \in Summarized /\ Len(drawn[r]) > 0) =>
      LET a == analytics[r]
          t == Temperatures(r)
          n == Len(t)
      IN  /\ a.min_temp.den = 1 /\ a.average_temp.den = 1 /\ a.max_temp.den = 1
          /\ a.min_temp.num <= a.average_temp.num
          /\ a.average_temp.num <= a.max_temp.num
          /\ \E i \in 1..n :
               /\ \A j \in 1..n : t[i] <= t[j]
               /\ a.min_temp.num = 10 * RoundHalfEven(t[i], 10)
          /\ \E i \in 1..n :
               /\ \A j \in 1..n : t[j] <= t[i]
               /\ a.max_temp.num = 10 * RoundHalfEven(t[i], 10)
          /\ a.average_temp.num % 10 = 0
          /\ 2 * Abs(a.average_temp.num * n - SeriesSum(t)) <= 10 * n

C6_Witness ==
  \E r \in Requests :
    /\ pc[r] = "C1"
    /\ Len(drawn[r]) = 3
    /\ analytics[r].min_temp.num < analytics[r].average_temp.num
    /\ analytics[r].average_temp.num < analytics[r].max_temp.num

\* C7: for a non-empty frame raw_data has total_records rows, row i carries
\* the sensor_id of the i-th reading, its temperature and humidity rounded to
\* two decimals and its timestamp formatted to the second, in generation order.
C7_RawDataRows ==
  \A r \in Requests :
    (pc[r] \in Formatted /\ Len(drawn[r]) > 0) =>
      LET n == Len(drawn[r]) IN
      /\ Len(raw_data[r]) = analytics[r].total_records
      /\ Len(raw_data[r]) = n
      /\ \A i \in 1..n :
           /\ raw_data[r][i].sensor_id = drawn[r][i].sensor_id
           /\ raw_data[r][i].temperature
                = 10 * RoundHalfEven(drawn[r][i].temperature, 10)
           /\ raw_data[r][i].humidity
                = 10 * RoundHalfEven(drawn[r][i].humidity, 10)
           /\ raw_data[r][i].timestamp
                = StrFTime([sec |-> now[r].sec - (n - i) * 60, sub |-> now[r].sub])
      /\ pc[r] = "done" => response[r].raw_data = raw_data[r]

C7_Witness ==
  \E r \in Requests :
    /\ pc[r] = "done"
    /\ Len(drawn[r]) = 2
    /\ drawn[r][1].temperature = 22004
    /\ drawn[r][2].temperature = 21995
    /\ response[r].raw_data[1].temperature = 22000
    /\ response[r].raw_data[2].temperature = 22000
    /\ response[r].raw_data[1].timestamp # response[r].raw_data[2].timestamp

\* everything request r holds
Locals(r) ==
  <<pc[r], kind[r], num_records[r], now[r], drawn[r], df[r], analytics[r],
    raw_data[r], response[r], error[r]>>

\* the rows a request must return for its own clock reading and draws
OwnRows(r) ==
  [i \in 1..Len(drawn[r]) |->
     [timestamp   |-> StrFTime([sec |-> now[r].sec - (Len(drawn[r]) - i) * 60,
                                sub |-> now[r].sub]),
      sensor_id   |-> drawn[r][i].sensor_id,
      temperature |-> 10 * RoundHalfEven(drawn[r][i].temperature, 10),
      humidity    |-> 10 * RoundHalfEven(drawn[r][i].humidity, 10)]]

\* the outcome of a finished request depends on that request alone
OwnOutcome ==
  \A r \in Requests :
    /\ (pc[r] = "done" /\ kind[r] = "root") => response[r].status = "OK"
    /\ (pc[r] = "done" /\ kind[r] = "analytics") =>
         /\ response[r].raw_data = OwnRows(r)
         /\ response[r].total_records = Len(drawn[r])
         /\ response[r].average_temp = Round2(SeriesMean(Temperatures(r)))
         /\ response[r].average_humidity = Round2(SeriesMean(Humidities(r)))
    /\ error[r] = "none"

\* a step changes what one request holds and nothing of any other request
OneRequestPerStep ==
  \A r \in Requests :
    Locals(r)' # Locals(r) =>
      \A q \in Requests \ {r} : Locals(q)' = Locals(q)

AnalyticsFields ==
  {"total_records", "average_temp", "max_temp", "min_temp", "average_humidity",
   "records_per_sensor", "raw_data"}

\* C9: a request to the analytics endpoint has no response until it returns,
\* and then its response carries exactly the seven fields, total_records is
\* 150, and the aggregates describe the 150 rows of raw_data of the same
\* response; no response with fewer fields exists.
C9_CompleteOrNothing ==
  \A r \in Requests :
    kind[r] = "analytics" =>
      /\ pc[r] # "done" => response[r] = None
      /\ pc[r] = "done" =>
           LET p == response[r] IN
           /\ DOMAIN p = AnalyticsFields
           /\ p.total_records = 150
           /\ Len(p.raw_data) = 150
           /\ \A id \in SensorIds :
                CountIn(p.records_per_sensor, id)
                  = Cardinality({i \in 1..Len(p.raw_data) : p.raw_data[i].sensor_id = id})
           /\ \A i \in 1..Len(p.raw_data) :
                /\ p.min_temp.num <= p.raw_data[i].temperature
                /\ p.raw_data[i].temperature <= p.max_temp.num
           /\ \E i \in 1..Len(p.raw_data) : p.raw_data[i].temperature = p.max_temp.num
           /\ \E i \in 1..Len(p.raw_data) : p.raw_data[i].temperature = p.min_temp.num
           /\ ~IsNaN(p.average_temp) /\ ~IsNaN(p.average_humidity)

C9_Witness ==
  \E r \in Requests :
    /\ kind[r] = "analytics"
    /\ pc[r] = "done"
    /\ response[r].total_records = 150
    /\ Len(response[r].raw_data) = 150

\* the draws of the concrete scenario
ScenarioDraws ==
  << [sensor_id |-> "sensor_alpha", temperature |-> 20000, humidity |-> 50000],
     [sensor_id |-> "sensor_alpha", temperature |-> 22000, humidity |-> 55000],
     [sensor_id |-> "sensor_beta",  temperature |-> 24000, humidity |-> 60000] >>

\* C10: the aggregates are the two-decimal roundings of the statistics of the
\* unrounded draws, and stay so after the rows have been rounded in place; on
\* the scenario's draws they are 3, 22.00, 24.00, 20.00, 55.00 and
\* {alpha: 2, beta: 1}.
C10_AggregatesFromFullPrecision ==
  \A r \in Requests :
    (pc[r] \in Summarized /\ Len(drawn[r]) > 0) =>
      /\ analytics[r].average_temp = Round2(SeriesMean(Temperatures(r)))
      /\ analytics[r].max_temp = Round2(SeriesMax(Temperatures(r)))
      /\ analytics[r].min_temp = Round2(SeriesMin(Temperatures(r)))
      /\ analytics[r].average_humidity = Round2(SeriesMean(Humidities(r)))
      /\ pc[r] = "done" =>
           /\ response[r].average_temp = analytics[r].average_temp
           /\ response[r].average_humidity = analytics[r].average_humidity
      /\ drawn[r] = ScenarioDraws =>
           /\ analytics[r].total_records = 3
           /\ analytics[r].average_temp = Float(22000)
           /\ analytics[r].max_temp = Float(24000)
           /\ analytics[r].min_temp = Float(20000)
           /\ analytics[r].average_humidity = Float(55000)
           /\ analytics[r].records_per_sensor
                = [id \in {"sensor_alpha", "sensor_beta"} |->
                     IF id = "sensor_alpha" THEN 2 ELSE 1]

\* a finished call whose rounded rows have a different mean than its draws
C10_Witness ==
  \E r \in Requests :
    /\ pc[r] = "done"
    /\ Len(drawn[r]) = 3
    /\ df[r].temperature # Temperatures(r)
    /\ response[r].average_temp # Round2(SeriesMean(df[r].temperature))
    /\ response[r].average_temp = Round2(SeriesMean(Temperatures(r)))

=============================================================================
